---- MODULE Spec2Model ----
(***************************************************************************)
(* Model of the realip Caddy middleware (src/module.go).                   *)
(*                                                                         *)
(* Strings are TLA+ strings handled character by character (Len, SubSeq,   *)
(* \o), so that splitting, trimming, IP/CIDR parsing and host:port         *)
(* joining are computed the way the Go code and its library calls compute  *)
(* them.  IP addresses are sequences of bytes (4 for IPv4, 16 for IPv6),   *)
(* the empty sequence standing for Go's nil IP.                            *)
(***************************************************************************)
EXTENDS Integers, Sequences, FiniteSets, TLC

\* ------------------------------------------------------------------------
\* Bounds of the model
\* ------------------------------------------------------------------------

\* largest number of comma-separated entries in a generated forward header
MaxChain == 3

\* largest number of "from" directives one Caddyfile block may carry
MaxFromDirectives == 1

\* ------------------------------------------------------------------------
\* Go string helpers (package strings, as used at module.go:194-196)
\* ------------------------------------------------------------------------

\* the i-th byte of s, as a one-character string
At(s, i) == SubSeq(s, i, i)

\* s[i:] with a 0-based Go index
From0(s, i) == SubSeq(s, i + 1, Len(s))

\* the scan of strings.IndexByte from (1-based) position i on
RECURSIVE indexFrom(_, _, _)
indexFrom(s, c, i) ==
  IF i > Len(s) THEN -1
  ELSE IF At(s, i) = c THEN i - 1
  ELSE indexFrom(s, c, i + 1)

\* strings.IndexByte: 0-based index of the first c in s, -1 if none
IndexByte(s, c) == indexFrom(s, c, 1)

\* the scan of strings.LastIndexByte from (1-based) position i down
RECURSIVE lastIndexFrom(_, _, _)
lastIndexFrom(s, c, i) ==
  IF i < 1 THEN -1
  ELSE IF At(s, i) = c THEN i - 1
  ELSE lastIndexFrom(s, c, i - 1)

\* strings.LastIndexByte: 0-based index of the last c in s, -1 if none
LastIndexByte(s, c) == lastIndexFrom(s, c, Len(s))

\* strings.Split(s, sep) for a one-byte separator: always at least one part
RECURSIVE Split(_, _)
Split(s, sep) ==
  LET i == IndexByte(s, sep)
  IN  IF i < 0 THEN <<s>>
      ELSE <<SubSeq(s, 1, i)>> \o Split(From0(s, i + 1), sep)

\* the white space strings.TrimSpace removes (the ASCII part that can
\* occur in a header value)
IsSpace(c) == c \in {" ", "\t"}

RECURSIVE TrimLeft(_)
TrimLeft(s) ==
  IF Len(s) > 0 /\ IsSpace(At(s, 1)) THEN TrimLeft(From0(s, 1)) ELSE s

RECURSIVE TrimRight(_)
TrimRight(s) ==
  IF Len(s) > 0 /\ IsSpace(At(s, Len(s))) THEN TrimRight(SubSeq(s, 1, Len(s) - 1)) ELSE s

\* strings.TrimSpace
TrimSpace(s) == TrimRight(TrimLeft(s))

\* ------------------------------------------------------------------------
\* Go package net: number parsing (net/parse.go dtoi, xtoi)
\* ------------------------------------------------------------------------

DecDigits == "0123456789"
HexDigits == "0123456789abcdefABCDEF"

\* the digit value of position k (0-based, -1 for none) in HexDigits
hexOf(k) == IF k >= 16 THEN k - 6 ELSE k

\* the value of hexadecimal digit c, -1 if c is not one
HexVal(c) == hexOf(IndexByte(HexDigits, c))

\* the value of decimal digit c, -1 if c is not one
DecVal(c) == IndexByte(DecDigits, c)

\* net's overflow guard for dtoi and xtoi
big == 16777215

\* dtoi/xtoi loop: consume digits of s from (0-based) position i on;
\* the result is [n: value, i: characters consumed, ok: no overflow]
RECURSIVE toiLoop(_, _, _, _)
toiLoop(s, i, n, hex) ==
  IF i >= Len(s) THEN [n |-> n, i |-> i, ok |-> TRUE]
  ELSE LET v == IF hex THEN HexVal(At(s, i + 1)) ELSE DecVal(At(s, i + 1))
           b == IF hex THEN 16 ELSE 10
       IN  IF v < 0 THEN [n |-> n, i |-> i, ok |-> TRUE]
           ELSE IF n * b + v >= big THEN [n |-> big, i |-> i, ok |-> FALSE]
           ELSE toiLoop(s, i + 1, n * b + v, hex)

\* the end of dtoi and xtoi: ok is false when no digit was consumed
toiResult(r) == IF r.ok /\ r.i > 0 THEN r ELSE [n |-> 0, i |-> r.i, ok |-> FALSE]

\* dtoi: decimal prefix of s
dtoi(s) == toiResult(toiLoop(s, 0, 0, FALSE))

\* xtoi: hexadecimal prefix of s
xtoi(s) == toiResult(toiLoop(s, 0, 0, TRUE))

\* ------------------------------------------------------------------------
\* Go package net: IP addresses
\* ------------------------------------------------------------------------

IPv4len == 4
IPv6len == 16

\* Go's nil IP
NilIP == <<>>

RECURSIVE parseIPv4Loop(_, _, _)

\* parseIPv4, field number i (0-based): t is the input at the field and r
\* the result of dtoi(t)
parseIPv4Field(t, i, acc, r) ==
  IF ~r.ok \/ r.n > 255 THEN NilIP
  ELSE IF r.i > 1 /\ At(t, 1) = "0" THEN NilIP
  ELSE parseIPv4Loop(From0(t, r.i), i + 1, Append(acc, r.n))

\* parseIPv4, field number i with the input t at the field
parseIPv4At(t, i, acc) == parseIPv4Field(t, i, acc, dtoi(t))

\* parseIPv4 loop: fields of s from field number i (0-based) on
parseIPv4Loop(s, i, acc) ==
  IF i = IPv4len THEN (IF Len(s) = 0 THEN acc ELSE NilIP)
  ELSE IF Len(s) = 0 THEN NilIP
  ELSE IF i > 0 /\ At(s, 1) # "." THEN NilIP
  ELSE parseIPv4At(IF i > 0 THEN From0(s, 1) ELSE s, i, acc)

\* net.parseIPv4: dotted decimal, four fields, no leading zeros
parseIPv4(s) == parseIPv4Loop(s, 0, <<>>)

\* i zero bytes
Zeros(i) == [k \in 1..i |-> 0]

\* net.parseIPv6, the expansion of the "::" ellipsis once i bytes are parsed
expandEllipsis(ip, i, ellipsis) ==
  IF i < IPv6len
  THEN IF ellipsis < 0 THEN NilIP
       ELSE SubSeq(ip, 1, ellipsis) \o Zeros(IPv6len - i) \o SubSeq(ip, ellipsis + 1, i)
  ELSE IF ellipsis >= 0 THEN NilIP ELSE ip

\* net.parseIPv6, the embedded IPv4 tail: ip4 is the result of parseIPv4
embedIPv4(ip, ellipsis, ip4) ==
  IF ellipsis < 0 /\ Len(ip) # IPv6len - IPv4len THEN NilIP
  ELSE IF Len(ip) + IPv4len > IPv6len THEN NilIP
  ELSE IF ip4 = NilIP THEN NilIP
  ELSE expandEllipsis(ip \o ip4, Len(ip) + IPv4len, ellipsis)

RECURSIVE parseIPv6Loop(_, _, _)

\* net.parseIPv6 after a group: ip2 holds the bytes so far, s2 is the rest
parseIPv6Rest(s2, ip2, ellipsis) ==
  IF Len(s2) = 0 THEN expandEllipsis(ip2, Len(ip2), ellipsis)
  ELSE IF At(s2, 1) # ":" \/ Len(s2) = 1 THEN NilIP
  ELSE IF At(s2, 2) = ":"
  THEN IF ellipsis >= 0 THEN NilIP
       ELSE IF Len(s2) = 2 THEN expandEllipsis(ip2, Len(ip2), Len(ip2))
       ELSE parseIPv6Loop(From0(s2, 2), ip2, Len(ip2))
  ELSE parseIPv6Loop(From0(s2, 1), ip2, ellipsis)

\* net.parseIPv6, one group: r is the result of xtoi(s)
parseIPv6Group(s, ip, ellipsis, r) ==
  IF ~r.ok \/ r.n > 65535 THEN NilIP
  ELSE IF r.i < Len(s) /\ At(s, r.i + 1) = "."
  THEN embedIPv4(ip, ellipsis, parseIPv4(s))
  ELSE parseIPv6Rest(From0(s, r.i), ip \o <<r.n \div 256, r.n % 256>>, ellipsis)

\* net.parseIPv6 main loop: ip holds the bytes parsed so far
parseIPv6Loop(s, ip, ellipsis) ==
  IF Len(ip) >= IPv6len
  THEN (IF Len(s) # 0 THEN NilIP ELSE expandEllipsis(ip, Len(ip), ellipsis))
  ELSE parseIPv6Group(s, ip, ellipsis, xtoi(s))

\* s starts with the "::" ellipsis
leadingEllipsis(s) == Len(s) >= 2 /\ At(s, 1) = ":" /\ At(s, 2) = ":"

\* net.parseIPv6 (no zone)
parseIPv6(s) ==
  IF leadingEllipsis(s) /\ Len(s) = 2 THEN Zeros(IPv6len)
  ELSE parseIPv6Loop(IF leadingEllipsis(s) THEN From0(s, 2) ELSE s, <<>>,
                     IF leadingEllipsis(s) THEN 0 ELSE -1)

\* IP.To4: the 4-byte form of an IPv4 or IPv4-mapped address, else nil
To4(ip) ==
  IF Len(ip) = IPv4len THEN ip
  ELSE IF /\ Len(ip) = IPv6len
          /\ \A k \in 1..10 : ip[k] = 0
          /\ ip[11] = 255 /\ ip[12] = 255
       THEN SubSeq(ip, 13, 16)
  ELSE NilIP

\* the 4-byte form where there is one
shortest(ip) == IF To4(ip) # NilIP THEN To4(ip) ELSE ip

\* net.ParseIP with the positions of the first '.' and ':' in s
parseIPWith(s, dot, col) ==
  IF dot < 0 /\ col < 0 THEN NilIP
  ELSE IF col < 0 \/ (dot >= 0 /\ dot < col) THEN parseIPv4(s)
  ELSE shortest(parseIPv6(s))

\* net.ParseIP: the first '.' or ':' decides the family; an IPv4 result is
\* kept in its 4-byte form (what Contains reduces it to with To4)
ParseIP(s) == parseIPWith(s, IndexByte(s, "."), IndexByte(s, ":"))

\* one byte of net.CIDRMask(ones, bits): byte number k (1-based)
MaskByte(ones, k) ==
  IF ones - 8 * (k - 1) >= 8 THEN 255
  ELSE IF ones - 8 * (k - 1) <= 0 THEN 0
  ELSE 256 - 2 ^ (8 - (ones - 8 * (k - 1)))

\* net.CIDRMask
CIDRMask(ones, bits) == [k \in 1..(bits \div 8) |-> MaskByte(ones, k)]

\* x & mb for a mask byte mb of a CIDR mask (ones followed by zeros)
AndMask(x, mb) == x - (x % (256 - mb))

\* IP.Mask for an IP and a mask of the same length
MaskIP(ip, mask) == [k \in 1..Len(ip) |-> AndMask(ip[k], mask[k])]

\* the error result of ParseCIDR
NoNet == [ok |-> FALSE, IP |-> NilIP, Mask |-> <<>>]

\* the network of ParseCIDR for the address ip and the mask mk
network(ip, mk) == [ok |-> TRUE, IP |-> MaskIP(ip, mk), Mask |-> mk]

\* ParseCIDR once the address is parsed: ip of iplen bytes (or nil), mask
\* the text after '/', r the result of dtoi(mask)
parseCIDRMask(ip, iplen, mask, r) ==
  IF ip = NilIP \/ ~r.ok \/ r.i # Len(mask) \/ r.n < 0 \/ r.n > 8 * iplen THEN NoNet
  ELSE network(ip, CIDRMask(r.n, 8 * iplen))

\* ParseCIDR, the address: ip4 is the result of parseIPv4(addr)
parseCIDRAddr(addr, mask, ip4) ==
  IF ip4 # NilIP
  THEN parseCIDRMask(ip4, IPv4len, mask, dtoi(mask))
  ELSE parseCIDRMask(parseIPv6(addr), IPv6len, mask, dtoi(mask))

\* ParseCIDR with the position i of the '/' in s
parseCIDRAt(s, i) ==
  IF i < 0 THEN NoNet
  ELSE parseCIDRAddr(SubSeq(s, 1, i), From0(s, i + 1), parseIPv4(SubSeq(s, 1, i)))

\* net.ParseCIDR: "address/prefix-length"; the network keeps the masked IP
ParseCIDR(s) == parseCIDRAt(s, IndexByte(s, "/"))

\* IPNet.Contains on the network number nn, the mask mk and the address x,
\* all three reduced with To4 where possible
containsReduced(nn, mk, x) ==
  /\ Len(x) = Len(nn)
  /\ \A k \in 1..Len(x) : AndMask(nn[k], mk[k]) = AndMask(x[k], mk[k])

\* networkNumberAndMask: the mask that goes with the reduced network number
reducedMask(n) ==
  IF To4(n.IP) # NilIP /\ Len(n.Mask) = IPv6len THEN SubSeq(n.Mask, 13, 16) ELSE n.Mask

\* IPNet.Contains: To4 both sides where possible, then compare under the mask
Contains(n, ip) == containsReduced(shortest(n.IP), reducedMask(n), shortest(ip))

\* ------------------------------------------------------------------------
\* Go package net: host:port strings (module.go:178, 208, 210)
\* ------------------------------------------------------------------------

\* the error result of SplitHostPort
SplitErr == [host |-> "", port |-> "", err |-> TRUE]

\* SplitHostPort for a host in brackets: i is the position of the last
\* ':' and end that of the first ']'
splitBracketed(hostport, i, end) ==
  IF end < 0 \/ end + 1 # i THEN SplitErr
  ELSE IF IndexByte(From0(hostport, 1), "[") >= 0 THEN SplitErr
  ELSE IF IndexByte(From0(hostport, end + 1), "]") >= 0 THEN SplitErr
  ELSE [host |-> SubSeq(hostport, 2, end), port |-> From0(hostport, i + 1), err |-> FALSE]

\* SplitHostPort for a host without brackets
splitPlain(hostport, i) ==
  IF IndexByte(SubSeq(hostport, 1, i), ":") >= 0 THEN SplitErr
  ELSE IF IndexByte(hostport, "[") >= 0 THEN SplitErr
  ELSE IF IndexByte(hostport, "]") >= 0 THEN SplitErr
  ELSE [host |-> SubSeq(hostport, 1, i), port |-> From0(hostport, i + 1), err |-> FALSE]

\* SplitHostPort with the position i of the last ':'
splitAt(hostport, i) ==
  IF i < 0 THEN SplitErr
  ELSE IF At(hostport, 1) = "[" THEN splitBracketed(hostport, i, IndexByte(hostport, "]"))
  ELSE splitPlain(hostport, i)

\* net.SplitHostPort
SplitHostPort(hostport) == splitAt(hostport, LastIndexByte(hostport, ":"))

\* net.JoinHostPort: a host holding ':' or '%' is put in brackets
JoinHostPort(host, port) ==
  IF IndexByte(host, ":") >= 0 \/ IndexByte(host, "%") >= 0
  THEN "[" \o host \o "]:" \o port
  ELSE host \o ":" \o port

\* ------------------------------------------------------------------------
\* Go package strconv (module.go:150, 159)
\* ------------------------------------------------------------------------

\* the digits of s are all decimal and there is at least one
AllDigits(s) == Len(s) > 0 /\ \A i \in 1..Len(s) : DecVal(At(s, i)) >= 0

\* the value of a short all-digit string
RECURSIVE DigitsVal(_)
DigitsVal(s) ==
  IF Len(s) = 0 THEN 0
  ELSE 10 * DigitsVal(SubSeq(s, 1, Len(s) - 1)) + DecVal(At(s, Len(s)))

\* the value of the digits body under the sign character sign
signedVal(sign, body) == IF sign = "-" THEN 0 - DigitsVal(body) ELSE DigitsVal(body)

\* strconv's integer parse of strVal (module.go:150): optional sign, then
\* decimal digits; value 0 with an error otherwise
ParseInt(strVal) ==
  IF Len(strVal) > 0 /\ At(strVal, 1) \in {"+", "-"} /\ AllDigits(From0(strVal, 1))
  THEN [val |-> signedVal(At(strVal, 1), From0(strVal, 1)), err |-> ""]
  ELSE IF AllDigits(strVal)
  THEN [val |-> DigitsVal(strVal), err |-> ""]
  ELSE [val |-> 0, err |-> "strconv.ParseInt: parsing " \o strVal \o ": invalid syntax"]

\* strconv.ParseBool
ParseBool(strVal) ==
  IF strVal \in {"1", "t", "T", "TRUE", "true", "True"} THEN [val |-> TRUE, err |-> ""]
  ELSE IF strVal \in {"0", "f", "F", "FALSE", "false", "False"} THEN [val |-> FALSE, err |-> ""]
  ELSE [val |-> FALSE, err |-> "strconv.ParseBool: parsing " \o strVal \o ": invalid syntax"]

\* ------------------------------------------------------------------------
\* The module (module.go:15-25) and the presets (module.go:27-91)
\* ------------------------------------------------------------------------

\* the zero value of struct module: what "var m module" and new(module) give
ZeroModule == [From |-> <<>>, Header |-> "", MaxHops |-> 0, Strict |-> FALSE]

presets ==
  [p \in {"cloudflare", "gcp", "rackspace"} |->
    CASE p = "cloudflare" ->
           << "103.21.244.0/22", "103.22.200.0/22", "103.31.4.0/22",
              "104.16.0.0/12", "108.162.192.0/18", "131.0.72.0/22",
              "141.101.64.0/18", "162.158.0.0/15", "172.64.0.0/13",
              "173.245.48.0/20", "188.114.96.0/20", "190.93.240.0/20",
              "197.234.240.0/22", "198.41.128.0/17", "2400:cb00::/32",
              "2405:8100::/32", "2405:b500::/32", "2606:4700::/32",
              "2803:f800::/32", "2c0f:f248::/32", "2a06:98c0::/29" >>
      [] p = "gcp" ->
           << "130.211.0.0/22", "35.191.0.0/16" >>
      [] p = "rackspace" ->
           << "10.189.254.0/24", "10.189.252.0/24", "10.183.248.0/24",
              "10.187.186.0/24", "10.183.250.0/24",
              "10.187.191.0/24", "10.189.255.0/24", "10.187.186.0/24",
              "10.189.254.0/24",
              "10.183.253.0/24", "10.183.250.0/24", "10.189.246.0/24",
              "10.187.187.0/24", "10.187.186.0/24", "10.183.252.0/24",
              "10.189.245.0/24", "10.183.251.0/24",
              "10.187.191.0/24", "10.190.254.0/24", "10.189.246.0/24",
              "10.190.255.0/24", "10.187.190.0/24", "10.189.247.0/24",
              "10.189.254.0/24",
              "10.189.254.0/24" >> ]

\* the *net.IPNet appended to From for a parsed CIDR
IPNet(c) == [IP |-> c.IP, Mask |-> c.Mask]

\* addIpRanges with "return" where the code has "continue": the tokens
\* after a preset name are dropped
RECURSIVE addIpRanges_returnAfterPreset(_, _)
addIpRanges_returnAfterPreset(mod, ranges) ==
  IF Len(ranges) = 0 THEN [m |-> mod, err |-> ""]
  ELSE IF Head(ranges) \in DOMAIN presets
  THEN addIpRanges_returnAfterPreset(mod, presets[Head(ranges)])
  ELSE IF ~ParseCIDR(Head(ranges)).ok
  THEN [m |-> mod, err |-> "invalid CIDR address: " \o Head(ranges)]
  ELSE addIpRanges_returnAfterPreset(
         [mod EXCEPT !.From = Append(@, IPNet(ParseCIDR(Head(ranges))))], Tail(ranges))

RECURSIVE addIpRanges(_, _)

\* addIpRanges after the recursive call for a preset returned r
afterPreset(r, rest) == IF r.err # "" THEN r ELSE addIpRanges(r.m, rest)

\* addIpRanges for the literal v, c being the result of ParseCIDR(v)
addLiteral(mod, v, c, rest) ==
  IF ~c.ok THEN [m |-> mod, err |-> "invalid CIDR address: " \o v]
  ELSE addIpRanges([mod EXCEPT !.From = Append(@, IPNet(c))], rest)

\* addIpRanges(m, d, ranges): the result is the module after the call and
\* the error returned ("" for nil); entries appended before an error stay
addIpRanges(mod, ranges) ==
  IF Len(ranges) = 0 THEN [m |-> mod, err |-> ""]
  ELSE IF Head(ranges) \in DOMAIN presets
  THEN afterPreset(addIpRanges(mod, presets[Head(ranges)]), Tail(ranges))
  ELSE addLiteral(mod, Head(ranges), ParseCIDR(Head(ranges)), Tail(ranges))

\* parseStringArg: the next argument of the directive, ArgErr if none
parseStringArg(args) ==
  IF Len(args) = 0 THEN [val |-> "", err |-> "Wrong argument count or unexpected line ending"]
  ELSE [val |-> args[1], err |-> ""]

\* parseIntArg: *out is assigned only when an argument was there
parseIntArg(args, out) ==
  IF parseStringArg(args).err = "" THEN ParseInt(parseStringArg(args).val)
  ELSE [val |-> out, err |-> parseStringArg(args).err]

\* parseBoolArg: *out is assigned only when an argument was there
parseBoolArg(args, out) ==
  IF parseStringArg(args).err = "" THEN ParseBool(parseStringArg(args).val)
  ELSE [val |-> out, err |-> parseStringArg(args).err]

\* the loop of validSource over From for the parsed address ip
inFrom(mod, ip) ==
  IF ip = NilIP THEN FALSE
  ELSE \E i \in 1..Len(mod.From) : Contains(mod.From[i], ip)

\* module.validSource
validSource(mod, addr) == inFrom(mod, ParseIP(addr))

\* ------------------------------------------------------------------------
\* module.ServeHTTP (module.go:177-220)
\* ------------------------------------------------------------------------

\* http.Header.Get: the value stored under key, "" when there is none
\* (header names are written in their canonical form throughout)
Get(header, key) == IF key \in DOMAIN header THEN header[key] ELSE ""

\* ServeHTTP returns an error of its own: the next handler is not invoked.
\* remote is req.RemoteAddr at the return, walked the chain indexes read
Reject(msg, remote, headerRead, walked) ==
  [err |-> msg, RemoteAddr |-> remote, seen |-> <<>>,
   headerRead |-> headerRead, walked |-> walked]

\* "return handler.ServeHTTP(w, req)": the next handler sees req as it is
\* now; the model's next handler returns nil
CallNext(remote, headerRead, walked) ==
  [err |-> "", RemoteAddr |-> remote, seen |-> <<remote>>,
   headerRead |-> headerRead, walked |-> walked]

\* the loop with the leftmost entry checked like the others ("i >= 0")
RECURSIVE walk_checksLeftmost(_, _, _, _, _, _)
walk_checksLeftmost(mod, parts, port, i, remote, walked) ==
  IF i < 1 THEN CallNext(remote, TRUE, walked)
  ELSE LET addr == JoinHostPort(parts[i], port)
           w == walked \cup {i}
       IN  IF ~validSource(mod, parts[i])
           THEN IF mod.Strict
                THEN Reject("Unrecognized proxy ip address: " \o parts[i], addr, TRUE, w)
                ELSE CallNext(addr, TRUE, w)
           ELSE walk_checksLeftmost(mod, parts, port, i - 1, addr, w)

\* the loop walking the chain from the leftmost entry to the rightmost
RECURSIVE walk_fromLeft(_, _, _, _, _, _)
walk_fromLeft(mod, parts, port, i, remote, walked) ==
  IF i < 1 THEN CallNext(remote, TRUE, walked)
  ELSE LET k == Len(parts) - i + 1
           addr == JoinHostPort(parts[k], port)
           w == walked \cup {k}
       IN  IF k > 1 /\ ~validSource(mod, parts[k])
           THEN IF mod.Strict
                THEN Reject("Unrecognized proxy ip address: " \o parts[k], addr, TRUE, w)
                ELSE CallNext(addr, TRUE, w)
           ELSE walk_fromLeft(mod, parts, port, i - 1, addr, w)

\* the loop of module.go:209-217 from index i (1-based) down; remote is
\* req.RemoteAddr on entry of the iteration
RECURSIVE walk(_, _, _, _, _, _)
walk(mod, parts, port, i, remote, walked) ==
  IF i < 1 THEN CallNext(remote, TRUE, walked)
  ELSE LET addr == JoinHostPort(parts[i], port)
           w == walked \cup {i}
       IN  IF i > 1 /\ ~validSource(mod, parts[i])
           THEN IF mod.Strict
                THEN Reject("Unrecognized proxy ip address: " \o parts[i], addr, TRUE, w)
                ELSE CallNext(addr, TRUE, w)
           ELSE walk(mod, parts, port, i - 1, addr, w)

\* module.go:195-197: trim every part
trimAll(raw) == [i \in 1..Len(raw) |-> TrimSpace(raw[i])]

\* module.go:194-197: split on commas, trim every part
splitHeader(hVal) == trimAll(Split(hVal, ","))

\* the peer gate without the membership test
peerRefused_parseOnly(mod, hp) == hp.err

\* the condition of module.go:179: the peer fails the gate
peerRefused(mod, hp) == hp.err \/ ~validSource(mod, hp.host)

\* the header test left out
hasForward_always(hVal) == TRUE

\* the condition of module.go:192: the header carries a value
hasForward(hVal) == hVal # ""

\* the hop limit off by one
tooManyHops_offByOne(mod, n) == mod.MaxHops # -1 /\ n >= mod.MaxHops

\* the condition of module.go:198: more than MaxHops entries
tooManyHops(mod, n) == mod.MaxHops # -1 /\ n > mod.MaxHops

\* ServeHTTP from module.go:198 on: parts is the trimmed chain
serveChain(mod, r, port, parts) ==
  IF tooManyHops(mod, Len(parts))
  THEN Reject("Too many forward addresses", r.RemoteAddr, TRUE, {})
  ELSE IF ParseIP(parts[Len(parts)]) = NilIP
  THEN IF mod.Strict
       THEN Reject("Unrecognized proxy ip address: " \o parts[Len(parts)],
                   r.RemoteAddr, TRUE, {Len(parts)})
       ELSE CallNext(r.RemoteAddr, TRUE, {Len(parts)})
  ELSE walk(mod, parts, port, Len(parts),
            JoinHostPort(parts[Len(parts)], port), {Len(parts)})

\* ServeHTTP from module.go:192 on: hVal is req.Header.Get(m.Header)
serveHeader(mod, r, port, hVal) ==
  IF hasForward(hVal)
  THEN serveChain(mod, r, port, splitHeader(hVal))
  ELSE CallNext(r.RemoteAddr, TRUE, {})

\* ServeHTTP from module.go:179 on: hp is the result of SplitHostPort
servePeer(mod, r, hp) ==
  IF peerRefused(mod, hp)
  THEN IF mod.Strict
       THEN Reject("Error reading remote addr: " \o r.RemoteAddr, r.RemoteAddr, FALSE, {})
       ELSE CallNext(r.RemoteAddr, FALSE, {})
  ELSE IF ~validSource(mod, hp.host)
  THEN IF mod.Strict
       THEN Reject("Unrecognized proxy ip address: " \o hp.host, r.RemoteAddr, FALSE, {})
       ELSE CallNext(r.RemoteAddr, FALSE, {})
  ELSE serveHeader(mod, r, hp.port, Get(r.Header, mod.Header))

\* module.ServeHTTP for the module value mod and the request r
ServeHTTP(mod, r) == servePeer(mod, r, SplitHostPort(r.RemoteAddr))

\* ------------------------------------------------------------------------
\* Inputs: Caddyfile directives and requests
\* ------------------------------------------------------------------------

\* argument lists of a "from" directive: literals, presets (one of them
\* named twice), and a malformed literal after entries that parse
FromArgs ==
  { <<"10.0.0.0/8">>,
    <<"gcp", "cloudflare", "gcp">>,
    <<"rackspace", "198.51.100.0/33">> }

Directives ==
  {[name |-> "from", args |-> a] : a \in FromArgs}
  \cup {[name |-> "header", args |-> a] : a \in {<<"X-Forwarded-For">>, <<>>}}
  \cup {[name |-> "strict", args |-> <<a>>] : a \in {"true", "yes"}}
  \cup {[name |-> "maxhops", args |-> <<a>>] : a \in {"-1", "0", "2", "many"}}
  \cup {[name |-> "trusted", args |-> <<"10.0.0.0/8">>]}

\* req.RemoteAddr values: a peer in 10.0.0.0/8, a peer in a cloudflare IPv6
\* range, a peer in no configured range, and one that is no host:port
Peers == {"10.0.0.2:1234", "[2400:cb00::2]:443", "203.0.113.5:80", "@"}

\* entries of the generated chains: in 10.0.0.0/8, in no configured range,
\* not an IP address
Entries == <<"10.0.0.1", "198.51.100.7", "unknown">>

\* the generated header values: every chain of 1..MaxChain entries,
\* written with ", " between the entries
RECURSIVE Chains(_)
Chains(k) ==
  IF k = 1 THEN {Entries[i] : i \in 1..Len(Entries)}
  ELSE {c \o ", " \o Entries[i] : c \in Chains(k - 1), i \in 1..Len(Entries)}

\* header values written another way: empty, no blank after the comma,
\* blanks and tabs around, an empty segment, IPv6 entries, a blank value
OtherValues ==
  { "", "10.0.0.1,10.0.0.1", " 10.0.0.1 ,\t10.0.0.1 ", "10.0.0.1,,10.0.0.1",
    "2400:cb00::1, 10.0.0.1", "10.0.0.1, 2400:cb00::1", " " }

HeaderValues == OtherValues \cup UNION {Chains(k) : k \in 1..MaxChain}

\* the requests: the forward header absent, or present with a value
Requests ==
  {[RemoteAddr |-> p, Header |-> <<>>] : p \in Peers}
  \cup {[RemoteAddr |-> p, Header |-> [h \in {"X-Forwarded-For"} |-> v]] :
          p \in Peers, v \in HeaderValues}

\* ------------------------------------------------------------------------
\* State
\* ------------------------------------------------------------------------

VARIABLES
  m,        \* the module value
  pc,       \* "unmarshal": UnmarshalCaddyfile is reading directives;
            \* "failed": it returned an error; "serving": the handler waits
            \* for a request; "served": a ServeHTTP call has returned
  opts,     \* names of the directives UnmarshalCaddyfile has handled
  nFrom,    \* number of "from" directives handled
  cfgErr,   \* the error UnmarshalCaddyfile returned, "" for none
  req,      \* the request of the last ServeHTTP call, as the call left it
  call      \* what the last ServeHTTP call did

vars == <<m, pc, opts, nFrom, cfgErr, req, call>>

\* no ServeHTTP call yet
NoCall ==
  [done |-> FALSE, before |-> "", err |-> "", seen |-> <<>>,
   headerRead |-> FALSE, walked |-> {}]

NoRequest == [RemoteAddr |-> "", Header |-> <<>>]

\* parseCaddyfileHandler (module.go:112-119): "var m module", then
\* UnmarshalCaddyfile starts reading
Init ==
  /\ m = ZeroModule
  /\ pc = "unmarshal"
  /\ opts = {}
  /\ nFrom = 0
  /\ cfgErr = ""
  /\ req = NoRequest
  /\ call = NoCall

\* a case of the switch that assigns field f: the module after it and the
\* error of the case; r is the parsed argument
assign(mod, f, r, always) ==
  [m |-> IF always \/ r.err = "" THEN [mod EXCEPT ![f] = r.val] ELSE mod, err |-> r.err]

\* the switch of module.go:249-260 for directive d: the module after it
\* and the error of the case ("" for nil, "unknown" for the default case)
directive(mod, d) ==
  CASE d.name = "header" -> assign(mod, "Header", parseStringArg(d.args), FALSE)
    [] d.name = "from" -> addIpRanges(mod, d.args)
    [] d.name = "strict" -> assign(mod, "Strict", parseBoolArg(d.args, mod.Strict), TRUE)
    [] d.name = "maxhops" -> assign(mod, "MaxHops", parseIntArg(d.args, mod.MaxHops), TRUE)
    [] OTHER -> [m |-> mod, err |-> "unknown"]

\* the end of one iteration (module.go:261-263): r is the outcome of the
\* switch for directive d
handled(d, r) ==
  /\ m' = r.m
  /\ cfgErr' = IF r.err = "" THEN ""
               ELSE IF r.err = "unknown" THEN "Unknown realip arg"
               ELSE "Error parsing " \o d.name \o ": " \o r.err
  /\ pc' = IF r.err = "" THEN "unmarshal" ELSE "failed"

\* one iteration of the loop of UnmarshalCaddyfile (module.go:225-264)
UnmarshalCaddyfile(d) ==
  /\ pc = "unmarshal"
  /\ d.name = "from" => nFrom < MaxFromDirectives
  /\ handled(d, directive(m, d))
  /\ opts' = opts \cup {d.name}
  /\ nFrom' = IF d.name = "from" THEN nFrom + 1 ELSE nFrom
  /\ UNCHANGED <<req, call>>

\* UnmarshalCaddyfile returns nil (module.go:265) and the module is
\* provisioned (module.go:107-110): the handler starts serving
Provision ==
  /\ pc = "unmarshal"
  /\ pc' = "serving"
  /\ UNCHANGED <<m, opts, nFrom, cfgErr, req, call>>

\* ServeHTTP returned res on request r
returned(r, res) ==
  /\ req' = [r EXCEPT !.RemoteAddr = res.RemoteAddr]
  /\ call' = [done |-> TRUE, before |-> r.RemoteAddr, err |-> res.err,
              seen |-> res.seen, headerRead |-> res.headerRead,
              walked |-> res.walked]

\* one whole ServeHTTP call on request r
Serve(r) ==
  /\ pc = "serving"
  /\ returned(r, ServeHTTP(m, r))
  /\ pc' = "served"
  /\ UNCHANGED <<m, opts, nFrom, cfgErr>>

\* the request is over and discarded; the handler waits for the next one
NextRequest ==
  /\ pc = "served"
  /\ pc' = "serving"
  /\ req' = NoRequest
  /\ call' = NoCall
  /\ UNCHANGED <<m, opts, nFrom, cfgErr>>

Next ==
  \/ \E d \in Directives : UnmarshalCaddyfile(d)
  \/ Provision
  \/ \E r \in Requests : Serve(r)
  \/ NextRequest

Spec == Init /\ [][Next]_vars

\* ------------------------------------------------------------------------
\* Vocabulary of the properties: the last ServeHTTP call
\* ------------------------------------------------------------------------

\* host and port of the peer, from req.RemoteAddr as it was before the call
peer == SplitHostPort(call.before)

\* the peer passes the peer gate: it splits, parses and lies in From
PeerTrusted == ~peer.err /\ validSource(m, peer.host)

\* the value of the configured forward header in the request
forward == Get(req.Header, m.Header)

\* the number of entries of a header value: one more than its commas
RECURSIVE CountEntries(_)
CountEntries(v) ==
  IF Len(v) = 0 THEN 1
  ELSE (IF Head(v) = "," THEN 1 ELSE 0) + CountEntries(Tail(v))

\* the trimmed entries of the forward header, leftmost first
chain == splitHeader(forward)

\* the number of entries of the forward header
hops == CountEntries(forward)

\* the chain is within the hop limit
WithinLimit == m.MaxHops = -1 \/ hops <= m.MaxHops

\* the indexes (1-based, so 2.. are the non-leftmost ones) of the entries
\* that are unparseable or not in From
BadHops == {i \in 2..hops : ~validSource(m, chain[i])}

\* the largest element of a non-empty set of numbers
Largest(S) == CHOOSE x \in S : \A y \in S : y <= x

TooMany == "Too many forward addresses"

\* ServeHTTP invoked the next handler once, with the remote address as it
\* was before the call, and returned nil
PassedThrough ==
  /\ call.err = ""
  /\ call.seen = <<call.before>>
  /\ req.RemoteAddr = call.before

\* ------------------------------------------------------------------------
\* C1
\* ------------------------------------------------------------------------

\* C1 (as stated): when the configured forward header is absent or empty,
\* ServeHTTP invokes the next handler with the original remote address and
\* returns no error, whatever Strict and From are.
C1_AbsentHeaderAlwaysPasses ==
  (pc = "served" /\ forward = "") => PassedThrough

\* C1 (amended): when the configured forward header is absent or empty,
\* ServeHTTP invokes the next handler with the original remote address and
\* returns no error, except that with Strict set and a peer that fails the
\* peer gate it returns the remote-address error without invoking the next
\* handler.
C1_AbsentHeader ==
  (pc = "served" /\ forward = "") =>
    IF m.Strict /\ ~PeerTrusted
    THEN /\ call.err = "Error reading remote addr: " \o call.before
         /\ call.seen = <<>>
         /\ req.RemoteAddr = call.before
    ELSE PassedThrough

\* a strict module with a header name set served a trusted peer whose
\* request has no forward header, and passed it through
C1_Witness ==
  /\ pc = "served"
  /\ m.Strict
  /\ m.Header = "X-Forwarded-For"
  /\ PeerTrusted
  /\ DOMAIN req.Header = {}
  /\ PassedThrough

\* ------------------------------------------------------------------------
\* C2
\* ------------------------------------------------------------------------

C3_HopLimit ==
  (pc = "served" /\ PeerTrusted /\ forward # "") =>
    /\ (call.err = TooMany) <=> (m.MaxHops # -1 /\ hops > m.MaxHops)
    /\ call.err = TooMany => call.seen = <<>>
    /\ m.MaxHops = -1 => call.err # TooMany
    /\ m.MaxHops = 0 => (call.err = TooMany /\ call.seen = <<>>)

\* a permissive module with MaxHops = 2 rejected a three-entry chain
C3_Witness ==
  /\ pc = "served"
  /\ PeerTrusted
  /\ ~m.Strict
  /\ m.MaxHops = 2
  /\ hops = 3
  /\ call.err = TooMany
  /\ call.seen = <<>>

\* ------------------------------------------------------------------------
\* C4
\* ------------------------------------------------------------------------

\* C4: for a trusted peer and a chain within the hop limit whose rightmost
\* entry parses and whose non-leftmost entries are all in From, the next
\* handler is invoked once with req.RemoteAddr = leftmost entry joined with
\* the port of the connection, whether or not the leftmost entry is in
\* From, in both modes.
C4_Resolved ==
  ( /\ pc = "served"
    /\ PeerTrusted
    /\ forward # ""
    /\ WithinLimit
    /\ ParseIP(chain[hops]) # NilIP
    /\ BadHops = {} )
  => /\ call.err = ""
     /\ call.seen = <<JoinHostPort(chain[1], peer.port)>>
     /\ req.RemoteAddr = JoinHostPort(chain[1], peer.port)
     /\ SplitHostPort(req.RemoteAddr).port = peer.port

\* a chain of two entries, the leftmost one not in From, resolved to the
\* leftmost entry
C4_Witness ==
  /\ pc = "served"
  /\ PeerTrusted
  /\ hops = 2
  /\ ~validSource(m, chain[1])
  /\ validSource(m, chain[2])
  /\ call.seen = <<"198.51.100.7:1234">>

\* ------------------------------------------------------------------------
\* C5
\* ------------------------------------------------------------------------

\* C5: in Strict mode, for a trusted peer and a chain within the hop limit
\* with an unparseable or untrusted non-leftmost entry, ServeHTTP returns
\* "Unrecognized proxy ip address" naming the rightmost such entry, never
\* invokes the next handler and reads no entry to the left of that one.
C5_StrictUntrustedHop ==
  ( /\ pc = "served"
    /\ m.Strict
    /\ PeerTrusted
    /\ forward # ""
    /\ WithinLimit
    /\ BadHops # {} )
  => /\ call.err = "Unrecognized proxy ip address: " \o chain[Largest(BadHops)]
     /\ call.seen = <<>>
     /\ \A j \in call.walked : j >= Largest(BadHops)

\* a strict call was stopped by the middle entry of a three-entry chain
\* whose rightmost entry is trusted
C5_Witness ==
  /\ pc = "served"
  /\ m.Strict
  /\ PeerTrusted
  /\ hops = 3
  /\ WithinLimit
  /\ Largest(BadHops \cup {0}) = 2
  /\ call.err = "Unrecognized proxy ip address: " \o chain[2]
  /\ call.walked = {2, 3}

\* ------------------------------------------------------------------------
\* C6
\* ------------------------------------------------------------------------

\* C6: when the peer fails the peer gate, a strict module returns an error
\* without invoking the next handler and a permissive one invokes it with
\* req.RemoteAddr unchanged; the forward header is not read, so the result
\* depends on the peer and Strict only.
C6_PeerGateFirst ==
  (pc = "served" /\ ~PeerTrusted) =>
    /\ ~call.headerRead
    /\ call.walked = {}
    /\ req.RemoteAddr = call.before
    /\ m.Strict => (call.err = "Error reading remote addr: " \o call.before /\ call.seen = <<>>)
    /\ ~m.Strict => (call.err = "" /\ call.seen = <<call.before>>)

\* a permissive module with MaxHops = 2 passed on the request of a peer
\* outside From that carried a three-entry chain
C6_Witness ==
  /\ pc = "served"
  /\ ~peer.err
  /\ ~PeerTrusted
  /\ m.From # <<>>
  /\ ~m.Strict
  /\ m.MaxHops = 2
  /\ hops = 3
  /\ call.seen = <<call.before>>

\* ------------------------------------------------------------------------
\* C7
\* ------------------------------------------------------------------------

\* C7: a module configured without a maxhops option has MaxHops = 5, so a
\* chain of one to five entries from a trusted peer is not rejected by the
\* hop limit.
C7_DefaultMaxHops ==
  ("maxhops" \notin opts /\ pc \in {"serving", "served"}) =>
    /\ m.MaxHops = 5
    /\ (pc = "served" /\ PeerTrusted /\ forward # "" /\ hops <= 5) => call.err # TooMany

\* ------------------------------------------------------------------------
\* C8
\* ------------------------------------------------------------------------

\* the flat list a token list stands for: a preset name stands for the
\* flat list of its entries, any other token for its own parsed CIDR
RECURSIVE Flatten(_)
Flatten(tokens) ==
  IF Len(tokens) = 0 THEN <<>>
  ELSE (IF Head(tokens) \in DOMAIN presets
        THEN Flatten(presets[Head(tokens)])
        ELSE <<IPNet(ParseCIDR(Head(tokens)))>>)
       \o Flatten(Tail(tokens))

\* every literal of the token list, presets expanded, is a valid CIDR
RECURSIVE WellFormed(_)
WellFormed(tokens) ==
  \A i \in 1..Len(tokens) :
    IF tokens[i] \in DOMAIN presets THEN WellFormed(presets[tokens[i]])
    ELSE ParseCIDR(tokens[i]).ok

\* token lists addIpRanges is tried on in every configuration state
TokenLists ==
  FromArgs \cup {<<>>, <<"gcp">>, <<"2400:cb00::/32", "gcp", "10.0.0.0/8", "gcp">>,
                 <<"gcp", "10.0.0.0">>}

\* addresses validSource is asked about
Probes ==
  {"10.0.0.1", "10.189.254.7", "35.191.0.9", "130.211.4.0", "198.51.100.7",
   "2400:cb00::2", "2a06:98c8::1", "::ffff:10.0.0.1", "unknown", ""}

\* C8: addIpRanges appends to From the flattened token list, in order, and
\* changes nothing else; a preset named twice has its entries appended
\* twice, which changes no validSource answer compared with naming it once;
\* a malformed CIDR literal makes the call return an error.
C8_AddIpRanges ==
  pc \in {"unmarshal", "failed"} =>
    /\ \A t \in TokenLists :
         LET r == addIpRanges(m, t)
         IN  IF WellFormed(t)
             THEN r.err = "" /\ r.m = [m EXCEPT !.From = m.From \o Flatten(t)]
             ELSE r.err # ""
    /\ \A p \in DOMAIN presets :
         LET once == addIpRanges(m, <<p>>).m
             twice == addIpRanges(m, <<p, p>>).m
         IN  /\ twice.From = once.From \o Flatten(<<p>>)
             /\ Len(twice.From) = Len(m.From) + 2 * Len(presets[p])
             /\ \A a \in Probes : validSource(twice, a) = validSource(once, a)

\* a "from" directive naming gcp twice around cloudflare has been handled:
\* From holds the 2 + 21 + 2 entries
C8_Witness ==
  /\ pc = "unmarshal"
  /\ nFrom = 1
  /\ Len(m.From) = 25
  /\ m.From[1] = m.From[24]
  /\ m.From[2] = [IP |-> <<35, 191, 0, 0>>, Mask |-> <<255, 255, 0, 0>>]
  /\ m.From[25] = m.From[2]

\* ------------------------------------------------------------------------
\* C9
\* ------------------------------------------------------------------------

\* C9: whenever ServeHTTP changes req.RemoteAddr, the host part of the new
\* value parses as an IP address.
C9_RemoteAddrIsIP ==
  (pc = "served" /\ req.RemoteAddr # call.before) =>
    /\ ~SplitHostPort(req.RemoteAddr).err
    /\ ParseIP(SplitHostPort(req.RemoteAddr).host) # NilIP

\* ------------------------------------------------------------------------
\* C10
\* ------------------------------------------------------------------------

\* C10: a call either returns its own error without invoking the next
\* handler or invokes the next handler exactly once; and when it returns
\* its own error, req.RemoteAddr is what it was before the call.
C10_RejectLeavesRequest ==
  pc = "served" =>
    /\ \/ (call.err # "" /\ call.seen = <<>>)
       \/ (call.err = "" /\ Len(call.seen) = 1)
    /\ call.err # "" => req.RemoteAddr = call.before

====
